---- MODULE Spec2Model ----
(***************************************************************************)
(* State-machine model of src/rfc8656/attributes.rs (stun_codec): the      *)
(* AddressFamily codec and the RequestedAddressFamily /                    *)
(* AdditionalAddressFamily attribute codecs that wrap it.                  *)
(*                                                                         *)
(* All three decoders (resp. encoders) are driven side by side with the    *)
(* same calls: decs[k] / encs[k] is the state of the codec of kind k.      *)
(* The innermost field `family` is bytecodec's U32beDecoder / U32beEncoder *)
(* (bytecodec 0.4: CopyableBytesDecoder<[u8; 4]> / BytesEncoder<[u8; 4]>), *)
(* to which every method of this file delegates; its behaviour is modelled *)
(* by the U32be* operators below.                                          *)
(***************************************************************************)
EXTENDS Integers, Sequences, FiniteSets, TLC

VARIABLES
    encs,   \* encs[k]: encoder of kind k: [some, bytes, offset] (BytesEncoder)
    out,    \* out[k]: bytes written to caller buffers since the last accepted start
    cur,    \* cur[k]: the family of the last accepted start_encoding (or "none")
    started, \* started[k]: accepted start_encoding calls of encoder k (up to MaxCount)
    wire,   \* wire[k]: bytes drained from encoder k and not yet fed to decoder k
    decs,   \* decs[k]: decoder of kind k: [bytes, offset] (CopyableBytesDecoder)
    res,    \* res[k]: the last call made on the encoder or decoder of kind k:
            \*   the operation, its arguments and what it returned
    fed     \* fed[k]: bytes handed to decoder k and taken by it since its last
            \*   finish that returned a value or InvalidInput, each with its origin

vars == <<encs, out, cur, started, wire, decs, res, fed>>
encVars == <<encs, out, cur, started>>
decVars == <<decs, fed>>

---------------------------------------------------------------------------
\* Bounds of the model.

\* Longest caller buffer handed to one decode / encode call.
MaxBuf == 5
\* Most bytes in flight towards a decoder.
MaxWire == 4
\* The values an encoder has accepted are counted up to this many.
MaxCount == 2

---------------------------------------------------------------------------
\* Constants of the program.

FAMILY_IPV4 == 1
FAMILY_IPV6 == 2
RequestedCODEPOINT == 23
AdditionalCODEPOINT == 32768
\* Width in bytes of the u32 field (U32beDecoder / U32beEncoder, [u8; 4]).
U32Len == 4

AddressFamily == {"V4", "V6"}
Wrappers == {"Requested", "Additional"}
Kinds == {"AddressFamily"} \cup Wrappers

\* Byte values the callers' buffers are filled from: both tags, the unknown
\* tags next to them, and the largest byte.
Bytes == {0, 1, 2, 3, 255}
\* Contents of the three padding bytes of a value that arrives.
Paddings == {<<0, 0, 0>>, <<255, 2, 1>>}
\* Codepoints the probe is called with: both constants, their neighbours,
\* and the ends of the 16-bit range.
Codepoints == {0, 22, 23, 24, 32767, 32768, 32769, 65535}

Min(a, b) == IF a < b THEN a ELSE b

\* A byte of a caller's own buffer (not produced by an encoder of the model).
Raw(b) == [b |-> b, from |-> "raw", pos |-> 0, seq |-> 0, chunk |-> 0]

\* Attribute values that arrive from the network: any first byte, then padding.
Payloads == { <<Raw(t), Raw(p[1]), Raw(p[2]), Raw(p[3])>> : t \in Bytes, p \in Paddings }

\* The values that arrive where the probe is exercised.
ProbePayloads == { <<Raw(1), Raw(0), Raw(0), Raw(0)>>, <<Raw(3), Raw(255), Raw(2), Raw(1)>> }

\* What follows the value in a caller's buffer (the next attribute's bytes).
Trailing(n) == [i \in 1..n |-> Raw(128)]

\* The byte values of a buffer.
Plain(buf) == [i \in 1..Len(buf) |-> buf[i].b]

---------------------------------------------------------------------------
\* Results.

Ok(v) == [ok |-> TRUE, val |-> v]
Err(kind) == [ok |-> FALSE, err |-> kind]

---------------------------------------------------------------------------
\* u32 <-> big-endian bytes.  A u32 is kept as its two 16-bit halves
\* [hi, lo] (value hi * 2^16 + lo), so that no intermediate exceeds the
\* checker's integers.

FromBeBytes(b) == [hi |-> b[1] * 256 + b[2], lo |-> b[3] * 256 + b[4]]
ToBeBytes(v) == <<v.hi \div 256, v.hi % 256, v.lo \div 256, v.lo % 256>>

---------------------------------------------------------------------------
\* Wrapper values.

New(k, fam) == IF k = "AddressFamily" THEN fam ELSE [wrapper |-> k, fam |-> fam]
address_family(w) == w.fam
\* Mutant: both wrapper types given the same codepoint.
CODEPOINTSame(k) == RequestedCODEPOINT
CODEPOINT(k) == IF k = "Requested" THEN RequestedCODEPOINT ELSE AdditionalCODEPOINT
\* Mutant: the codepoint chosen by the wrapped family.
get_typeOfFamily(w) == IF w.fam = "V4" THEN RequestedCODEPOINT ELSE AdditionalCODEPOINT
get_type(w) == CODEPOINT(w.wrapper)

---------------------------------------------------------------------------
\* Decoders.

DefaultDecoder == [bytes |-> <<0, 0, 0, 0>>, offset |-> 0]

\* Mutant: the bytes of every call copied to the start of the array.
U32beDecodeAtStart(d, buf, eos) ==
    LET size == Min(Len(buf), U32Len - d.offset)
        nd == [bytes  |-> [i \in 1..U32Len |-> IF i <= size THEN buf[i] ELSE d.bytes[i]],
               offset |-> d.offset + size]
    IN  [st |-> nd,
         res |-> IF nd.offset # U32Len /\ eos THEN Err("UnexpectedEos") ELSE Ok(size)]

\* Mutant: a call at the end of the stream fails even when it completes the value.
U32beDecodeEosStrict(d, buf, eos) ==
    LET size == Min(Len(buf), U32Len - d.offset)
        nd == [bytes  |-> [i \in 1..U32Len |->
                             IF i > d.offset /\ i <= d.offset + size
                             THEN buf[i - d.offset] ELSE d.bytes[i]],
               offset |-> d.offset + size]
    IN  [st |-> nd, res |-> IF eos THEN Err("UnexpectedEos") ELSE Ok(size)]

\* U32beDecoder::decode: copy min(len, 4 - offset) leading bytes of buf at
\* offset; UnexpectedEos when the stream ends before the 4th byte.
U32beDecode(d, buf, eos) ==
    LET size == Min(Len(buf), U32Len - d.offset)
        nd == [bytes  |-> [i \in 1..U32Len |->
                             IF i > d.offset /\ i <= d.offset + size
                             THEN buf[i - d.offset] ELSE d.bytes[i]],
               offset |-> d.offset + size]
    IN  [st |-> nd,
         res |-> IF nd.offset # U32Len /\ eos THEN Err("UnexpectedEos") ELSE Ok(size)]

\* Mutant: the held bytes returned without rewinding.
U32beFinishNoRewind(d) ==
    IF d.offset # U32Len
    THEN [st |-> d, res |-> Err("IncompleteDecoding")]
    ELSE [st |-> d, res |-> Ok(FromBeBytes(d.bytes))]

\* Mutant: a failed finish drops what was fed.
U32beFinishDropping(d) ==
    IF d.offset # U32Len
    THEN [st |-> [d EXCEPT !.offset = 0], res |-> Err("IncompleteDecoding")]
    ELSE [st |-> [d EXCEPT !.offset = 0], res |-> Ok(FromBeBytes(d.bytes))]

\* Mutant: the held bytes returned however many were fed.
U32beFinishUnchecked(d) ==
    [st |-> [d EXCEPT !.offset = 0], res |-> Ok(FromBeBytes(d.bytes))]

\* U32beDecoder::finish_decoding: IncompleteDecoding unless 4 bytes are held;
\* otherwise rewind and return the big-endian value.
U32beFinish(d) ==
    IF d.offset # U32Len
    THEN [st |-> d, res |-> Err("IncompleteDecoding")]
    ELSE [st |-> [d EXCEPT !.offset = 0], res |-> Ok(FromBeBytes(d.bytes))]

\* Mutant: the whole length reported whatever is held.
U32beRequiringBytesWhole(d) == U32Len
U32beRequiringBytes(d) == U32Len - d.offset
\* Mutant: idle when nothing is held.
U32beIsIdleAtZero(d) == d.offset = 0
U32beIsIdle(d) == d.offset = U32Len

\* Mutant: every tag other than 1 taken as V6.
MatchFamilyDefaultV6(famByte) ==
    IF famByte = FAMILY_IPV4 THEN Ok("V4") ELSE Ok("V6")

\* The match of AddressFamilyDecoder::finish_decoding on the first byte.
MatchFamily(famByte) ==
    IF famByte = FAMILY_IPV4 THEN Ok("V4")
    ELSE IF famByte = FAMILY_IPV6 THEN Ok("V6")
    ELSE Err("InvalidInput")

\* Mutant: non-zero padding rejected.
AddressFamilyFinishStrict(d) ==
    LET r == U32beFinish(d)
        b == IF r.res.ok THEN ToBeBytes(r.res.val) ELSE <<0, 0, 0, 0>>
    IN  IF r.res.ok
        THEN [st |-> r.st,
              res |-> IF b[2] # 0 \/ b[3] # 0 \/ b[4] # 0
                      THEN Err("InvalidInput") ELSE MatchFamily(b[1])]
        ELSE r

\* Mutant: a rejected tag leaves the four bytes in the decoder.
AddressFamilyFinishKeeping(d) ==
    LET r == U32beFinish(d)
        m == IF r.res.ok THEN MatchFamily(ToBeBytes(r.res.val)[1]) ELSE r.res
    IN  IF r.res.ok
        THEN [st |-> IF m.ok THEN r.st ELSE d, res |-> m]
        ELSE r

\* AddressFamilyDecoder::finish_decoding.
AddressFamilyFinish(d) ==
    LET r == U32beFinish(d)
    IN  IF r.res.ok
        THEN [st |-> r.st, res |-> MatchFamily(ToBeBytes(r.res.val)[1])]
        ELSE r

\* Mutant: every failure of the inner decoder reported as InvalidInput.
WrapperFinishRewrap(k, d) ==
    LET r == AddressFamilyFinish(d)
    IN  IF r.res.ok
        THEN [st |-> r.st, res |-> Ok(New(k, r.res.val))]
        ELSE [st |-> r.st, res |-> Err("InvalidInput")]

\* impl_decode!: finish_decoding of a wrapper decoder.
WrapperFinish(k, d) ==
    LET r == AddressFamilyFinish(d)
    IN  IF r.res.ok THEN [st |-> r.st, res |-> Ok(New(k, r.res.val))] ELSE r

DecodeOf(k, d, buf, eos) == U32beDecode(d, buf, eos)
FinishOf(k, d) == IF k = "AddressFamily" THEN AddressFamilyFinish(d) ELSE WrapperFinish(k, d)
requiring_bytes(k) == U32beRequiringBytes(decs[k])
is_idle(k) == U32beIsIdle(decs[k])

\* impl_decode!: TryTaggedDecode::try_start_decoding.
TryStartDecoding(k, c) == Ok(c = CODEPOINT(k))

---------------------------------------------------------------------------
\* Encoders.

DefaultEncoder == [some |-> FALSE, bytes |-> <<>>, offset |-> 0]

\* Mutant: a new value accepted over one that is not fully drained.
U32beStartOverwrite(e, v) ==
    [st |-> [some |-> TRUE, bytes |-> ToBeBytes(v), offset |-> 0], res |-> Ok(0)]

\* Mutant: a rejected start rewinds the value being drained.
U32beStartRewinding(e, v) ==
    IF e.some
    THEN [st |-> [e EXCEPT !.offset = 0], res |-> Err("EncoderFull")]
    ELSE [st |-> [some |-> TRUE, bytes |-> ToBeBytes(v), offset |-> 0], res |-> Ok(0)]

\* U32beEncoder::start_encoding: EncoderFull unless idle; otherwise hold the
\* big-endian bytes of the value.
U32beStart(e, v) ==
    IF e.some
    THEN [st |-> e, res |-> Err("EncoderFull")]
    ELSE [st |-> [some |-> TRUE, bytes |-> ToBeBytes(v), offset |-> 0], res |-> Ok(0)]

\* Mutant: every call copies from the start of the held bytes.
U32beEncodeFromStart(e, len, eos) ==
    IF ~e.some
    THEN [st |-> e, res |-> Ok(0), written |-> <<>>]
    ELSE LET size == Min(len, U32Len - e.offset)
             noff == e.offset + size
             w == SubSeq(e.bytes, 1, size)
         IN  IF noff = U32Len
             THEN [st |-> [some |-> FALSE, bytes |-> <<>>, offset |-> noff],
                   res |-> Ok(size), written |-> w]
             ELSE [st |-> [e EXCEPT !.offset = noff],
                   res |-> IF eos THEN Err("UnexpectedEos") ELSE Ok(size),
                   written |-> w]

\* U32beEncoder::encode into a buffer of length len: copy min(len, 4 - offset)
\* bytes from offset; drop the value once all are out; UnexpectedEos when the
\* stream ends before that.  `written` is what was copied into the buffer.
U32beEncode(e, len, eos) ==
    IF ~e.some
    THEN [st |-> e, res |-> Ok(0), written |-> <<>>]
    ELSE LET size == Min(len, U32Len - e.offset)
             noff == e.offset + size
             w == SubSeq(e.bytes, e.offset + 1, noff)
         IN  IF noff = U32Len
             THEN [st |-> [some |-> FALSE, bytes |-> <<>>, offset |-> noff],
                   res |-> Ok(size), written |-> w]
             ELSE [st |-> [e EXCEPT !.offset = noff],
                   res |-> IF eos THEN Err("UnexpectedEos") ELSE Ok(size),
                   written |-> w]

\* Mutant: the whole width reported while a value is held.
U32beExactRequiringBytesWhole(e) == IF e.some THEN U32Len ELSE 0
U32beExactRequiringBytes(e) == IF e.some THEN U32Len - e.offset ELSE 0

\* Mutant: the tag written as the last byte of the word.
AddressFamilyStartTagLast(e, item) ==
    LET fam_byte == IF item = "V4" THEN FAMILY_IPV4 ELSE FAMILY_IPV6
        bytes == <<0, 0, 0, fam_byte>>
    IN  U32beStart(e, FromBeBytes(bytes))

\* AddressFamilyEncoder::start_encoding.
AddressFamilyStart(e, item) ==
    LET fam_byte == IF item = "V4" THEN FAMILY_IPV4 ELSE FAMILY_IPV6
        bytes == <<fam_byte, 0, 0, 0>>
    IN  U32beStart(e, FromBeBytes(bytes))

\* impl_encode!: start_encoding of a wrapper encoder ($map_from is item.0).
WrapperStart(e, item) == AddressFamilyStart(e, item.fam)

StartOf(k, e, item) ==
    IF k = "AddressFamily" THEN AddressFamilyStart(e, item) ELSE WrapperStart(e, item)
EncodeOf(k, e, len, eos) == U32beEncode(e, len, eos)
exact_requiring_bytes(k) == U32beExactRequiringBytes(encs[k])
\* Encode::is_idle (the trait's default): requiring_bytes() == Finite(0).
enc_is_idle(k) == exact_requiring_bytes(k) = 0

---------------------------------------------------------------------------
\* The record of a call: the operation, its arguments (len: the length of the
\* caller's buffer; eos: the end-of-stream flag; tag: the codepoint probed),
\* what it returned (res), the bytes it wrote or the bytes that were decoded
\* (data), and `before`: what the codec reported before the call, the bytes
\* still to drain (exact_requiring_bytes) of an encoder, the bytes accumulated
\* (4 - requiring_bytes) of a decoder.

NoCall == [op |-> "none", res |-> Ok(0), len |-> 0, eos |-> FALSE, before |-> 0,
           data |-> <<>>, tag |-> 0]
Call(op, r, len, eos, before, data, tag) ==
    [op |-> op, res |-> r, len |-> len, eos |-> eos, before |-> before,
     data |-> data, tag |-> tag]

Init ==
    /\ encs = [k \in Kinds |-> DefaultEncoder]
    /\ out = [k \in Kinds |-> <<>>]
    /\ cur = [k \in Kinds |-> "none"]
    /\ started = [k \in Kinds |-> 0]
    /\ wire = [k \in Kinds |-> <<>>]
    /\ decs = [k \in Kinds |-> DefaultDecoder]
    /\ res = [k \in Kinds |-> NoCall]
    /\ fed = [k \in Kinds |-> <<>>]

---------------------------------------------------------------------------
\* Encoder operations.

\* start_encoding(New(k, f)) on every encoder.
StartStep(f) ==
    LET r == [k \in Kinds |-> StartOf(k, encs[k], New(k, f))]
    IN  /\ encs' = [k \in Kinds |-> r[k].st]
        /\ res' = [k \in Kinds |->
                     Call("start", r[k].res, 0, FALSE, exact_requiring_bytes(k), <<>>, 0)]
        /\ out' = [k \in Kinds |-> IF r[k].res.ok THEN <<>> ELSE out[k]]
        /\ cur' = [k \in Kinds |-> IF r[k].res.ok THEN f ELSE cur[k]]
        /\ started' = [k \in Kinds |->
                     IF r[k].res.ok THEN Min(started[k] + 1, MaxCount) ELSE started[k]]

\* The bytes a call wrote, each with the value and position it belongs to.
Tagged(k, w) ==
    [i \in 1..Len(w) |->
        [b |-> w[i], from |-> cur[k], pos |-> Len(out[k]) + i, seq |-> started[k],
         chunk |-> 0]]

\* encode(buf, eos) with a buffer of length len on every encoder.
EncodeStep(len, eos) ==
    LET r == [k \in Kinds |-> EncodeOf(k, encs[k], len, eos)]
    IN  /\ encs' = [k \in Kinds |-> r[k].st]
        /\ res' = [k \in Kinds |->
                     Call("encode", r[k].res, len, eos, exact_requiring_bytes(k), r[k].written, 0)]
        /\ out' = [k \in Kinds |-> out[k] \o r[k].written]
        /\ UNCHANGED <<cur, started>>

StartEncoding(f) == StartStep(f) /\ UNCHANGED <<wire, decVars>>

Encode(len, eos) == EncodeStep(len, eos) /\ UNCHANGED <<wire, decVars>>

\* encode, the caller passing on the bytes of a call that returned Ok.
EncodeToWire(len, eos) ==
    /\ \A k \in Kinds : Len(wire[k]) + Min(len, U32Len) <= MaxWire
    /\ EncodeStep(len, eos)
    /\ wire' = [k \in Kinds |->
                  IF res'[k].res.ok
                  THEN wire[k] \o SubSeq(Tagged(k, res'[k].data), 1, res'[k].res.val)
                  ELSE wire[k]]
    /\ UNCHANGED decVars

---------------------------------------------------------------------------
\* Decoder operations.

\* A value arrives from the network.
Arrive(payload) ==
    /\ \A k \in Kinds : wire[k] = <<>>
    /\ wire' = [k \in Kinds |-> payload]
    /\ UNCHANGED <<encVars, decVars, res>>

\* What the caller knows the decoder took of buf: the returned count, or the
\* whole buffer when the call reported the end of the stream.
Taken(buf, r) == IF r.ok THEN SubSeq(buf, 1, r.val) ELSE buf

\* The bytes taken by one decode call, stamped with the number of that call
\* among the calls that fed the value.
Stamped(k, took) ==
    LET nth == IF fed[k] = <<>> THEN 1 ELSE fed[k][Len(fed[k])].chunk + 1
    IN  [i \in 1..Len(took) |-> [took[i] EXCEPT !.chunk = nth]]

\* decode(buf, eos) on every decoder k, buf being the first n bytes in flight
\* followed by `extra` bytes of what comes after the value.
Decode(n, extra, eos) ==
    /\ \A k \in Kinds : n <= Len(wire[k])
    /\ n + extra <= MaxBuf
    /\ extra > 0 => \A k \in Kinds : n = Len(wire[k]) /\ requiring_bytes(k) <= n
    /\ LET buf == [k \in Kinds |-> SubSeq(wire[k], 1, n) \o Trailing(extra)]
           r == [k \in Kinds |-> DecodeOf(k, decs[k], Plain(buf[k]), eos)]
           took == [k \in Kinds |-> Taken(buf[k], r[k].res)]
       IN  /\ decs' = [k \in Kinds |-> r[k].st]
           /\ res' = [k \in Kinds |->
                        Call("decode", r[k].res, Len(buf[k]), eos,
                             U32Len - requiring_bytes(k), <<>>, 0)]
           /\ fed' = [k \in Kinds |-> fed[k] \o Stamped(k, took[k])]
           /\ wire' = [k \in Kinds |->
                         SubSeq(wire[k], Min(Len(took[k]), Len(wire[k])) + 1, Len(wire[k]))]
    /\ UNCHANGED encVars

\* finish_decoding on every decoder.
FinishDecoding ==
    LET r == [k \in Kinds |-> FinishOf(k, decs[k])]
        done == [k \in Kinds |-> r[k].res.ok \/ r[k].res.err = "InvalidInput"]
    IN  /\ decs' = [k \in Kinds |-> r[k].st]
        /\ res' = [k \in Kinds |->
                     Call("finish", r[k].res, 0, FALSE, U32Len - requiring_bytes(k), fed[k], 0)]
        /\ fed' = [k \in Kinds |-> IF done[k] THEN <<>> ELSE fed[k]]
        /\ UNCHANGED <<wire, encVars>>

\* Mutant: a probe that accepts the codepoint starts the decoder afresh.
ProbeResetting(c) ==
    /\ res' = [k \in Kinds |->
                 IF k \in Wrappers
                 THEN Call("probe", TryStartDecoding(k, c), 0, FALSE,
                           U32Len - requiring_bytes(k), <<>>, c)
                 ELSE NoCall]
    /\ decs' = [k \in Kinds |->
                  IF k \in Wrappers /\ TryStartDecoding(k, c).val
                  THEN [decs[k] EXCEPT !.offset = 0] ELSE decs[k]]
    /\ UNCHANGED <<fed, wire, encVars>>

\* try_start_decoding(c) on every wrapper decoder.
Probe(c) ==
    /\ res' = [k \in Kinds |->
                 IF k \in Wrappers
                 THEN Call("probe", TryStartDecoding(k, c), 0, FALSE,
                           U32Len - requiring_bytes(k), <<>>, c)
                 ELSE NoCall]
    /\ UNCHANGED <<decs, fed, wire, encVars>>

\* try_start_decoding(w.get_type()) on every wrapper decoder, for a wrapper
\* value w: the codepoint that tags w when it is sent.
ProbeTypeOf(w) ==
    /\ res' = [k \in Kinds |->
                 IF k \in Wrappers
                 THEN Call("probe", TryStartDecoding(k, get_type(w)), 0, FALSE,
                           U32Len - requiring_bytes(k), <<w>>, get_type(w))
                 ELSE NoCall]
    /\ UNCHANGED <<decs, fed, wire, encVars>>

---------------------------------------------------------------------------
\* Specifications.

BufLens == 0..MaxBuf

\* Encoder to decoder: the bytes drained from an encoder (into buffers that
\* are not the end of the stream) are fed to the decoder of the same kind.
Next ==
    \/ \E f \in AddressFamily : StartEncoding(f)
    \/ \E len \in BufLens : EncodeToWire(len, FALSE)
    \/ \E n \in BufLens, extra \in BufLens, eos \in BOOLEAN : Decode(n, extra, eos)
    \/ FinishDecoding

Spec == Init /\ [][Next]_vars

\* The encoders alone, with caller buffers of every length.
NextEnc ==
    \/ \E f \in AddressFamily : StartEncoding(f)
    \/ \E len \in BufLens, eos \in BOOLEAN : Encode(len, eos)

SpecEnc == Init /\ [][NextEnc]_vars

\* The decoders alone, fed with values of every content.
NextDec ==
    \/ \E payload \in Payloads : Arrive(payload)
    \/ \E n \in BufLens, extra \in BufLens, eos \in BOOLEAN : Decode(n, extra, eos)
    \/ FinishDecoding

SpecDec == Init /\ [][NextDec]_vars

\* The decoders with the tagged-dispatch probe called at any point.
NextProbe ==
    \/ \E payload \in ProbePayloads : Arrive(payload)
    \/ \E n \in BufLens, extra \in BufLens, eos \in BOOLEAN : Decode(n, extra, eos)
    \/ FinishDecoding
    \/ \E c \in Codepoints : Probe(c)
    \/ \E kw \in Wrappers, f \in AddressFamily : ProbeTypeOf(New(kw, f))

SpecProbe == Init /\ [][NextProbe]_vars

---------------------------------------------------------------------------
\* Properties.

\* The family carried by what finish_decoding of decoder k returned.
FamilyOf(k, v) == IF k = "AddressFamily" THEN v ELSE address_family(v)
\* v is a value of the item type of codec k.
IsItemOf(k, v) == IF k = "AddressFamily" THEN v \in AddressFamily ELSE v.wrapper = k

\* data is the four bytes, in order, that an encoder drained for one value.
FromOneValue(data) ==
    /\ Len(data) = 4
    /\ data[1].from \in AddressFamily
    /\ \A i \in 1..4 : data[i].from = data[1].from /\ data[i].pos = i

\* C1: round trip.  Whenever finish_decoding is called on a decoder that was
\* fed exactly the four bytes an encoder of the same kind drained for a value
\* started with family f, it returns a value, of the decoder's item type,
\* whose family is f.
C1_RoundTrip ==
    \A k \in Kinds :
        (res[k].op = "finish" /\ FromOneValue(res[k].data)) =>
            /\ res[k].res.ok
            /\ IsItemOf(k, res[k].res.val)
            /\ FamilyOf(k, res[k].res.val) = res[k].data[1].from

C1_Witness ==
    /\ \A k \in Kinds : res[k].op = "finish" /\ FromOneValue(res[k].data)
    /\ res["AddressFamily"].res = Ok("V6")
    /\ res["Requested"].res.ok /\ address_family(res["Requested"].res.val) = "V6"
    /\ res["Additional"].res.ok /\ address_family(res["Additional"].res.val) = "V6"
    /\ res["Requested"].data[4].chunk > 1

\* C2: byte-exact encoding.  After an accepted start_encoding(f), the bytes
\* written into the callers' buffers by the encode calls made so far are a
\* prefix of [1,0,0,0] (f = V4) or [2,0,0,0] (f = V6), and are exactly these
\* four bytes once the encoder is idle.
C2_ByteExact ==
    \A k \in Kinds :
        cur[k] # "none" =>
            LET want == IF cur[k] = "V4" THEN <<1, 0, 0, 0>> ELSE <<2, 0, 0, 0>>
            IN  /\ Len(out[k]) <= 4
                /\ out[k] = SubSeq(want, 1, Len(out[k]))
                /\ enc_is_idle(k) => out[k] = want

C2_Witness ==
    \A k \in Kinds :
        /\ cur[k] = "V6" /\ enc_is_idle(k) /\ out[k] = <<2, 0, 0, 0>>
        /\ res[k].op = "encode" /\ res[k].before = 1 /\ res[k].len = MaxBuf

\* C3: padding-tolerant decoding.  finish_decoding on four accumulated bytes
\* whose first is 1 (resp. 2) returns V4 (resp. V6), whatever the other three.
C3_PaddingTolerant ==
    \A k \in Kinds :
        (res[k].op = "finish" /\ Len(res[k].data) = 4 /\ res[k].data[1].b \in {1, 2}) =>
            /\ res[k].res.ok
            /\ FamilyOf(k, res[k].res.val) = IF res[k].data[1].b = 1 THEN "V4" ELSE "V6"

C3_Witness ==
    /\ res["AddressFamily"].op = "finish"
    /\ Plain(res["AddressFamily"].data) = <<2, 255, 2, 1>>
    /\ res["AddressFamily"].res = Ok("V6")

\* C4: invalid tag rejection.  finish_decoding on four accumulated bytes
\* fails, with InvalidInput, exactly when the first byte is neither 1 nor 2;
\* on fewer bytes it never reports InvalidInput.
C4_InvalidTag ==
    \A k \in Kinds :
        res[k].op = "finish" =>
            IF res[k].before = 4
            THEN /\ Len(res[k].data) = 4
                 /\ res[k].res.ok <=> res[k].data[1].b \in {1, 2}
                 /\ ~res[k].res.ok => res[k].res.err = "InvalidInput"
            ELSE ~res[k].res.ok /\ res[k].res.err # "InvalidInput"

C4_Witness ==
    \A k \in Kinds :
        /\ res[k].op = "finish" /\ res[k].before = 4
        /\ res[k].data[1].b = 3
        /\ res[k].res = Err("InvalidInput")

\* C5: tagged dispatch.  The probe of the RequestedAddressFamily decoder
\* returns Ok(true) exactly for codepoint 0x0017, that of the
\* AdditionalAddressFamily decoder exactly for 0x8000; it never fails and no
\* codepoint is accepted by both.
C5_Dispatch ==
    res["Requested"].op = "probe" =>
        /\ res["Additional"].op = "probe" /\ res["Additional"].tag = res["Requested"].tag
        /\ res["Requested"].res.ok /\ res["Additional"].res.ok
        /\ res["Requested"].res.val <=> res["Requested"].tag = 23
        /\ res["Additional"].res.val <=> res["Additional"].tag = 32768
        /\ ~(res["Requested"].res.val /\ res["Additional"].res.val)

C5_Witness ==
    /\ res["Requested"].op = "probe" /\ res["Requested"].tag = 32768
    /\ res["Requested"].res = Ok(FALSE)
    /\ res["Additional"].res = Ok(TRUE)
    /\ res["Additional"].before = 2

\* finish_decoding of a freshly made decoder of kind k given all of `bytes`
\* in a single decode call.
OneShot(k, bytes) == FinishOf(k, DecodeOf(k, DefaultDecoder, bytes, FALSE).st).res

\* C6: incremental feed equivalence.  finish_decoding after four bytes were
\* fed in any number of decode calls returns what it returns when the same
\* four bytes are fed in one call: the same value or the same failure.
C6_FeedEquivalence ==
    \A k \in Kinds :
        (res[k].op = "finish" /\ Len(res[k].data) = 4) =>
            res[k].res = OneShot(k, Plain(res[k].data))

C6_Witness ==
    \A k \in Kinds :
        /\ res[k].op = "finish" /\ Len(res[k].data) = 4
        /\ res[k].data[1].chunk = 1 /\ res[k].data[2].chunk = 2 /\ res[k].data[4].chunk = 3
        /\ res[k].res.ok /\ FamilyOf(k, res[k].res.val) = "V4"

\* C7 as stated: exact_requiring_bytes() is 4 in every state of an encoder.
C7_AlwaysFour == \A k \in Kinds : exact_requiring_bytes(k) = 4

\* C7, amended: exact_requiring_bytes() is the number of bytes of the started
\* value that are not yet drained: 4 right after an accepted start_encoding
\* of either variant, 4 - d after d bytes were drained, and 0 on an encoder
\* that was never started or is fully drained.
C7_ExactRemaining ==
    \A k \in Kinds :
        exact_requiring_bytes(k) = IF cur[k] = "none" THEN 0 ELSE 4 - Len(out[k])

C7_Witness ==
    \A k \in Kinds :
        /\ cur[k] = "V4" /\ Len(out[k]) = 1 /\ exact_requiring_bytes(k) = 3
        /\ res[k].op = "encode" /\ res[k].before = 4

\* C8 as stated: every start_encoding and every encode call returns Ok.
C8_NeverFails ==
    \A k \in Kinds : res[k].op \in {"start", "encode"} => res[k].res.ok

\* C8, amended: start_encoding returns Ok exactly when no byte of an earlier
\* value is left to drain and fails with EncoderFull otherwise; encode returns
\* Ok unless the end-of-stream flag is set and the buffer is shorter than what
\* is left to drain, when it fails with UnexpectedEos.
C8_FailsOnlyWhenFullOrEos ==
    \A k \in Kinds :
        /\ res[k].op = "start" =>
              /\ res[k].res.ok <=> res[k].before = 0
              /\ ~res[k].res.ok => res[k].res.err = "EncoderFull"
        /\ res[k].op = "encode" =>
              /\ res[k].res.ok <=> ~(res[k].eos /\ res[k].len < res[k].before)
              /\ ~res[k].res.ok => res[k].res.err = "UnexpectedEos"

C8_Witness ==
    \A k \in Kinds :
        /\ res[k].op = "encode" /\ res[k].eos /\ res[k].before = 3 /\ res[k].len = 3
        /\ res[k].res = Ok(3)

\* C9 as stated: a decode call never fails.
C9_DecodeNeverFails ==
    \A k \in Kinds : res[k].op = "decode" => res[k].res.ok

\* C9, amended: a decode call never fails while the end-of-stream flag is not
\* set, whatever the buffer length; with the flag set it fails, with
\* UnexpectedEos, exactly when fewer than 4 bytes are accumulated after the
\* call.  After a call that returned Ok and left the value incomplete,
\* requiring_bytes() is the positive number of bytes still missing.
C9_DecodeFailsOnlyAtEos ==
    \A k \in Kinds :
        res[k].op = "decode" =>
            LET after == res[k].before + Min(res[k].len, 4 - res[k].before)
            IN  /\ res[k].res.ok <=> ~(res[k].eos /\ after < 4)
                /\ ~res[k].res.ok => res[k].res.err = "UnexpectedEos"
                /\ (res[k].res.ok /\ after < 4) =>
                       requiring_bytes(k) = 4 - after /\ requiring_bytes(k) > 0

C9_Witness ==
    \A k \in Kinds :
        /\ res[k].op = "decode" /\ ~res[k].eos /\ res[k].before = 1 /\ res[k].len = 2
        /\ res[k].res = Ok(2) /\ requiring_bytes(k) = 1

\* C10 as stated: is_idle() is true whenever no byte of a value is
\* accumulated and false while 1 to 3 bytes are.
C10_IdleWhenEmpty ==
    \A k \in Kinds :
        /\ Len(fed[k]) = 0 => is_idle(k)
        /\ Len(fed[k]) \in 1..3 => ~is_idle(k)

\* C10, amended: is_idle() is true exactly while all 4 bytes of a value are
\* accumulated and finish_decoding has not yet taken them; it is false on a
\* fresh decoder, right after finish_decoding, and while 1 to 3 bytes are held.
C10_IdleWhenComplete ==
    \A k \in Kinds : is_idle(k) <=> Len(fed[k]) = 4

C10_Witness ==
    \A k \in Kinds :
        /\ is_idle(k) /\ Len(fed[k]) = 4
        /\ res[k].op = "decode" /\ res[k].before = 3

\* C11: the wrapper decoders refine the AddressFamily decoder.  Driven with
\* the same calls, a wrapper decoder reports the same requiring_bytes and
\* is_idle, decode returns the same count or the same failure, and
\* finish_decoding fails exactly when the AddressFamily decoder's does, with
\* the same error kind, and otherwise returns a wrapper of its own type
\* around the AddressFamily decoder's value.
C11_WrapperRefines ==
    \A w \in Wrappers :
        LET a == res["AddressFamily"]
            r == res[w]
        IN  /\ requiring_bytes(w) = requiring_bytes("AddressFamily")
            /\ is_idle(w) <=> is_idle("AddressFamily")
            /\ r.op \in {"decode", "finish"} =>
                  /\ a.op = r.op
                  /\ r.res.ok <=> a.res.ok
                  /\ ~r.res.ok => r.res.err = a.res.err
                  /\ (r.op = "decode" /\ r.res.ok) => r.res.val = a.res.val
                  /\ (r.op = "finish" /\ r.res.ok) =>
                        r.res.val.wrapper = w /\ address_family(r.res.val) = a.res.val

C11_Witness ==
    /\ res["AddressFamily"].op = "finish"
    /\ res["AddressFamily"].res = Err("IncompleteDecoding")
    /\ res["Requested"].res = Err("IncompleteDecoding")
    /\ res["Additional"].res = Err("IncompleteDecoding")
    /\ res["Requested"].before = 3

\* C12: reset after completion.  Once finish_decoding has returned a value
\* the decoder reports what a new decoder reports, and whatever it decoded
\* before, the next four bytes decode to what a new decoder makes of them.
\* Once an encoder is fully drained it reports what a new encoder reports,
\* start_encoding of the next value is accepted, and the bytes drained after
\* it are those of the new value alone.
C12_ResetAfterCompletion ==
    \A k \in Kinds :
        /\ (res[k].op = "finish" /\ res[k].res.ok) =>
              /\ requiring_bytes(k) = U32beRequiringBytes(DefaultDecoder)
              /\ is_idle(k) <=> U32beIsIdle(DefaultDecoder)
              /\ res[k].res = OneShot(k, Plain(res[k].data))
        /\ (cur[k] # "none" /\ Len(out[k]) = 4) =>
              exact_requiring_bytes(k) = U32beExactRequiringBytes(DefaultEncoder)
        /\ (res[k].op = "start" /\ res[k].before = 0) =>
              /\ res[k].res.ok
              /\ out[k] = <<>>
        /\ \A i \in 1..Len(out[k]) :
              out[k][i] = IF i > 1 THEN 0 ELSE IF cur[k] = "V4" THEN 1 ELSE 2

\* The second value an encoder accepted, of the other family than the first,
\* has been drained and decoded by a decoder that had returned the first.
C12_Witness ==
    \A k \in Kinds :
        /\ res[k].op = "finish" /\ res[k].res.ok
        /\ FromOneValue(res[k].data) /\ res[k].data[1].seq = 2
        /\ FamilyOf(k, res[k].res.val) = "V4"
        /\ decs[k].bytes = <<1, 0, 0, 0>>
        /\ started[k] = 2 /\ cur[k] = "V4" /\ Len(out[k]) = 4

\* C13: codepoint consistency between tagging and recognition.  get_type()
\* of a wrapper value is the CODEPOINT of its type (0x0017 for
\* RequestedAddressFamily, 0x8000 for AdditionalAddressFamily) whatever the
\* wrapped family; the probe of the decoder of the same type accepts it and
\* the probe of the decoder of the other type rejects it.
C13_TagRecognised ==
    /\ \A kw \in Wrappers, f \in AddressFamily :
          get_type(New(kw, f)) = IF kw = "Requested" THEN 23 ELSE 32768
    /\ \A k \in Wrappers :
          (res[k].op = "probe" /\ res[k].data # <<>>) =>
              LET w == res[k].data[1]
              IN  /\ res[k].tag = (IF w.wrapper = "Requested" THEN 23 ELSE 32768)
                  /\ res[k].res = Ok(k = w.wrapper)

\* An AdditionalAddressFamily of V4 probed while two bytes are held.
C13_Witness ==
    /\ res["Requested"].op = "probe" /\ res["Requested"].data # <<>>
    /\ res["Requested"].data[1] = New("Additional", "V4")
    /\ res["Requested"].res = Ok(FALSE)
    /\ res["Additional"].res = Ok(TRUE)
    /\ res["Additional"].tag = 32768
    /\ res["Additional"].before = 2

\* C14 as stated: every decode call on a buffer of length n, with k bytes
\* accumulated, returns the count min(n, 4 - k).
C14_EveryCallReturnsCount ==
    \A k \in Kinds :
        res[k].op = "decode" =>
            res[k].res = Ok(Min(res[k].len, 4 - res[k].before))

\* C14, amended: the number of accumulated bytes is 4 - requiring_bytes() and
\* lies in 0..4; the bytes held are the bytes taken from the caller's
\* buffers, in order; a decode call on a buffer of length n with k bytes
\* accumulated takes min(n, 4 - k) bytes, whether it returns Ok or fails at
\* the end of the stream, and when it returns Ok it returns that count.
C14_ByteAccounting ==
    \A k \in Kinds :
        /\ requiring_bytes(k) \in 0..4
        /\ Len(fed[k]) = 4 - requiring_bytes(k)
        /\ \A i \in 1..Len(fed[k]) : decs[k].bytes[i] = fed[k][i].b
        /\ res[k].op = "decode" =>
              LET size == Min(res[k].len, 4 - res[k].before)
              IN  /\ requiring_bytes(k) = 4 - (res[k].before + size)
                  /\ res[k].res.ok => res[k].res.val = size

\* A buffer of five bytes given to decoders holding two: two bytes taken.
C14_Witness ==
    \A k \in Kinds :
        /\ res[k].op = "decode" /\ res[k].len = 5 /\ res[k].before = 2
        /\ res[k].res = Ok(2) /\ requiring_bytes(k) = 0

\* C15: premature finish fails loudly.  finish_decoding called while fewer
\* than 4 bytes are accumulated returns no value: it fails with
\* IncompleteDecoding, whatever bytes an earlier value left in the decoder.
C15_PrematureFinishFails ==
    \A k \in Kinds :
        (res[k].op = "finish" /\ res[k].before < 4) =>
            /\ ~res[k].res.ok
            /\ res[k].res.err = "IncompleteDecoding"
            /\ Len(res[k].data) = res[k].before

\* finish_decoding called on decoders that took no byte since they returned
\* a V4, whose four bytes they still hold.
C15_Witness ==
    \A k \in Kinds :
        /\ res[k].op = "finish" /\ res[k].before = 0
        /\ res[k].res = Err("IncompleteDecoding")
        /\ decs[k].bytes = <<1, 0, 0, 0>>

\* C16: a failed premature finish leaves the decoder unchanged.  A
\* finish_decoding called with fewer than 4 bytes accumulated changes neither
\* the bytes held nor their number, and a finish_decoding called once the
\* remaining bytes were fed returns what a new decoder returns for the four
\* bytes fed, whatever calls were made between them.
C16_FailedFinishFrame ==
    [][\A k \in Kinds :
          /\ (res'[k].op = "finish" /\ res'[k].before < 4) =>
                /\ decs'[k] = decs[k]
                /\ fed'[k] = fed[k]
                /\ requiring_bytes(k)' = requiring_bytes(k)
                /\ is_idle(k)' <=> is_idle(k)
          /\ (res'[k].op = "finish" /\ Len(res'[k].data) = 4) =>
                res'[k].res = OneShot(k, Plain(res'[k].data))]_vars

\* finish_decoding has failed on decoders that hold two bytes of a value.
C16_Witness ==
    \A k \in Kinds :
        /\ res[k].op = "finish" /\ res[k].before = 2
        /\ res[k].res = Err("IncompleteDecoding")
        /\ Len(fed[k]) = 2 /\ requiring_bytes(k) = 2
        /\ decs[k].bytes[1] = fed[k][1].b /\ decs[k].bytes[2] = fed[k][2].b
        /\ fed[k][1].b = 2

\* C17: a finish_decoding that fails with InvalidInput still resets the
\* decoder.  It is made over four bytes whose first is neither 1 nor 2, and
\* after it requiring_bytes() is 4; the next decode call behaves as on a new
\* decoder and the bytes it takes replace the rejected ones; every
\* finish_decoding over four bytes returns what a new decoder returns for
\* those four bytes.
C17_InvalidInputResets ==
    [][\A k \in Kinds :
          /\ (res'[k].op = "finish" /\ res'[k].res = Err("InvalidInput")) =>
                /\ Len(res'[k].data) = 4
                /\ res'[k].data[1].b \notin {FAMILY_IPV4, FAMILY_IPV6}
                /\ requiring_bytes(k)' = 4
                /\ fed'[k] = <<>>
          /\ (res[k].op = "finish" /\ res[k].res = Err("InvalidInput")
                  /\ res'[k].op = "decode") =>
                /\ res'[k].before = 0
                /\ res'[k].res = U32beDecode(DefaultDecoder,
                                             [i \in 1..res'[k].len |-> 0], res'[k].eos).res
                /\ Len(fed'[k]) = Min(res'[k].len, 4)
                /\ \A i \in 1..Len(fed'[k]) : decs'[k].bytes[i] = fed'[k][i].b
          /\ (res'[k].op = "finish" /\ Len(res'[k].data) = 4) =>
                res'[k].res = OneShot(k, Plain(res'[k].data))]_vars

\* finish_decoding has rejected the bytes 3, 255, 2, 1, which the decoders
\* still hold although they report that they need four bytes.
C17_Witness ==
    \A k \in Kinds :
        /\ res[k].op = "finish" /\ res[k].res = Err("InvalidInput")
        /\ requiring_bytes(k) = 4 /\ fed[k] = <<>>
        /\ decs[k].bytes = <<3, 255, 2, 1>>

\* C18: one encoder emits one value at a time.  A start_encoding made while
\* a value is partially drained is rejected and changes neither the encoder
\* nor the bytes still to be drained; a start_encoding is accepted only when
\* no value was started or all four bytes of the last one are out; the bytes
\* drained since an accepted start are a prefix of [tag, 0, 0, 0] of that
\* value alone.
C18_OneValueAtATime ==
    [][\A k \in Kinds :
          /\ (res'[k].op = "start" /\ res'[k].before > 0) =>
                /\ res'[k].res = Err("EncoderFull")
                /\ encs'[k] = encs[k]
                /\ out'[k] = out[k] /\ cur'[k] = cur[k]
                /\ exact_requiring_bytes(k)' = exact_requiring_bytes(k)
          /\ (res'[k].op = "start" /\ res'[k].res.ok) =>
                /\ res'[k].before = 0
                /\ cur[k] # "none" => Len(out[k]) = 4
                /\ out'[k] = <<>>
          /\ \A i \in 1..Len(out'[k]) :
                out'[k][i] = IF i > 1 THEN 0
                             ELSE IF cur'[k] = "V4" THEN FAMILY_IPV4 ELSE FAMILY_IPV6
          /\ Len(out'[k]) = (IF cur'[k] = "none" THEN 0 ELSE 4) - exact_requiring_bytes(k)'
      ]_vars

\* start_encoding rejected by encoders that have drained two of the four
\* bytes of a V4.
C18_Witness ==
    \A k \in Kinds :
        /\ res[k].op = "start" /\ res[k].res = Err("EncoderFull")
        /\ res[k].before = 2
        /\ cur[k] = "V4" /\ out[k] = <<1, 0>>
        /\ exact_requiring_bytes(k) = 2

\* C19: the tagged-dispatch probe has no effect on decoder state.
\* try_start_decoding with any codepoint, at any point of the feeding of a
\* value, leaves the bytes held, requiring_bytes() and is_idle() as they
\* were, and finish_decoding over four fed bytes returns what it returns on
\* a new decoder that was never probed.
C19_ProbeFrame ==
    [][\A k \in Wrappers :
          /\ res'[k].op = "probe" =>
                /\ decs'[k] = decs[k]
                /\ fed'[k] = fed[k]
                /\ requiring_bytes(k)' = requiring_bytes(k)
                /\ is_idle(k)' <=> is_idle(k)
                /\ res'[k].before = Len(fed'[k])
          /\ (res'[k].op = "finish" /\ Len(res'[k].data) = 4) =>
                res'[k].res = OneShot(k, Plain(res'[k].data))]_vars

\* The decoders probed with the codepoint of AdditionalAddressFamily while
\* they hold three bytes of a value.
C19_Witness ==
    /\ \A k \in Wrappers :
          /\ res[k].op = "probe" /\ res[k].tag = AdditionalCODEPOINT
          /\ res[k].before = 3 /\ requiring_bytes(k) = 1 /\ ~is_idle(k)
          /\ Len(fed[k]) = 3
    /\ res["Additional"].res = Ok(TRUE)

====
